---- MODULE Spec2Model ----
(***************************************************************************)
(* Model of the backup-report notifier (send_asset_email.py) and of the    *)
(* fetcher that feeds it (API.py).  One run of the notifier reads the      *)
(* asset rows, loads the persisted state, decides FULL or INCREMENTAL,     *)
(* builds the CSV rows, sends (or simulates) the email and, on success,    *)
(* rewrites the state file through a temporary file.                       *)
(*                                                                         *)
(* Optional values (Python None) are sets of at most one element.          *)
(* Strings that the code inspects (Status) are sequences of characters.    *)
(* A datetime is a record [sec, ms]: whole epoch seconds and milliseconds. *)
(***************************************************************************)
EXTENDS Integers, Sequences, FiniteSets, TLC

\* ------------------------------------------------------------------ bounds
MaxRows == 2
MaxRuns == 3

\* ------------------------------------------------------- optional values
None == {}
Some(x) == {x}
Get(o) == CHOOSE x \in o : TRUE

Range(s) == {s[i] : i \in 1..Len(s)}

\* -------------------------------------------------------------- strings
Whitespace == {" "}

RECURSIVE LStrip(_)
LStrip(s) ==
    IF s # <<>> /\ Head(s) \in Whitespace THEN LStrip(Tail(s)) ELSE s

RECURSIVE RStrip(_)
RStrip(s) ==
    IF s # <<>> /\ s[Len(s)] \in Whitespace
    THEN RStrip(SubSeq(s, 1, Len(s) - 1))
    ELSE s

\* str.strip()
Strip(s) == RStrip(LStrip(s))

LowerChar(c) ==
    CASE c = "O" -> "o"
      [] c = "K" -> "k"
      [] c = "D" -> "d"
      [] c = "N" -> "n"
      [] c = "I" -> "i"
      [] c = "P" -> "p"
      [] c = "R" -> "r"
      [] c = "G" -> "g"
      [] c = "E" -> "e"
      [] c = "S" -> "s"
      [] c = "B" -> "b"
      [] OTHER -> c

\* str.lower()
Lower(s) == [i \in 1..Len(s) |-> LowerChar(s[i])]

\* needle in s
Contains(s, needle) ==
    \E i \in 0..(Len(s) - Len(needle)) :
        SubSeq(s, i + 1, i + Len(needle)) = needle

InProgress == <<"i", "n", " ", "p", "r", "o", "g", "r", "e", "s", "s">>

\* ----------------------------------------------------------- timestamps
\* A raw numeric value is hi * 10^6 + lo + frac / 1000.
Million == 1000000
MillisThresholdHi == 1000000
MaxDatetimeHi == 253402
MaxDatetimeLo == 300799

Num(n) == [t |-> "num", hi |-> 0, lo |-> n, frac |-> 0]
NumF(n, f) == [t |-> "num", hi |-> 0, lo |-> n, frac |-> f]
Junk == [t |-> "junk"]

\* sec > 1e12
AboveMillisThreshold(v) ==
    \/ v.hi > MillisThresholdHi
    \/ v.hi = MillisThresholdHi /\ (v.lo > 0 \/ v.frac > 0)

\* A negative value has hi <= 0 and lo <= 0.
MinDatetimeHi == -62135
MinDatetimeLo == -596800

\* datetime.fromtimestamp raises beyond year 9999 and before year 1
FromTimestampRaises(v) ==
    \/ v.hi > MaxDatetimeHi
    \/ v.hi = MaxDatetimeHi /\ v.lo > MaxDatetimeLo
    \/ v.hi < MinDatetimeHi
    \/ v.hi = MinDatetimeHi /\ v.lo < MinDatetimeLo

FromNumber(v) ==
    IF AboveMillisThreshold(v)
    THEN Some([sec |-> v.hi * 1000 + (v.lo \div 1000), ms |-> v.lo % 1000])
    ELSE IF FromTimestampRaises(v)
         THEN None
         ELSE Some([sec |-> v.hi * Million + v.lo, ms |-> v.frac])

\* a string value that is neither a number nor a date
Str(s) == [t |-> "str", s |-> s]

AsciiDigits == {"0", "1", "2", "3", "4", "5", "6", "7", "8", "9"}

\* characters for which str.isdigit() is true: the decimal digits and the
\* other characters of Unicode digit value, such as the superscript two
DigitChars == AsciiDigits \cup {"^2"}

\* s.isdigit()
IsDigit(s) == s # <<>> /\ \A i \in 1..Len(s) : s[i] \in DigitChars

\* int(s) raises ValueError
IntRaises(s) == \E i \in 1..Len(s) : s[i] \notin AsciiDigits

DigitValue(c) ==
    CASE c = "0" -> 0 [] c = "1" -> 1 [] c = "2" -> 2 [] c = "3" -> 3
      [] c = "4" -> 4 [] c = "5" -> 5 [] c = "6" -> 6 [] c = "7" -> 7
      [] c = "8" -> 8 [] c = "9" -> 9

\* int(s), as hi * 10^6 + lo
RECURSIVE IntOf(_)
IntOf(s) ==
    IF s = <<>> THEN [t |-> "num", hi |-> 0, lo |-> 0, frac |-> 0]
    ELSE LET p == IntOf(SubSeq(s, 1, Len(s) - 1))
             l == p.lo * 10 + DigitValue(s[Len(s)])
         IN  [t |-> "num", hi |-> p.hi * 10 + (l \div Million),
              lo |-> l % Million, frac |-> 0]

\* _parse_to_utc_datetime raises instead of returning: int(s) sits outside
\* every try block
ParseRaises(ts) ==
    /\ ts # None
    /\ Get(ts).t = "str"
    /\ IsDigit(Strip(Get(ts).s))
    /\ IntRaises(Strip(Get(ts).s))

\* _parse_to_utc_datetime, where it returns
ParseToUtcDatetime(ts) ==
    IF ts = None THEN None
    ELSE LET v == Get(ts) IN
         CASE v.t = "num" -> FromNumber(v)
           [] v.t = "str" ->
                IF IsDigit(Strip(v.s)) /\ ~IntRaises(Strip(v.s))
                THEN FromNumber(IntOf(Strip(v.s)))
                ELSE None
           [] v.t = "iso" -> Some([sec |-> v.sec, ms |-> v.ms])
           [] OTHER -> None

\* int(dt.timestamp()): truncation toward zero
TruncSeconds(dt) ==
    IF dt.sec < 0 /\ dt.ms > 0 THEN dt.sec + 1 ELSE dt.sec

\* _epoch_seconds_or_none
EpochSecondsOrNone(ts) ==
    LET dt == ParseToUtcDatetime(ts) IN
    IF dt = None THEN None ELSE Some(TruncSeconds(Get(dt)))

\* (now - dt).total_seconds() / 3600.0 <= h
AgeAtMostHours(now, dt, h) ==
    LET ds == now.sec - dt.sec
        dms == now.ms - dt.ms
    IN  IF ds < h * 3600 THEN TRUE
        ELSE IF ds > h * 3600 THEN FALSE
        ELSE dms <= 0

\* status_raw and "in progress" in str(status_raw).lower()
StatusInProgress(row) ==
    /\ row.Status # None
    /\ Get(row.Status) # <<>>
    /\ Contains(Lower(Get(row.Status)), InProgress)

\* compute_backup_status raises instead of returning
ComputeRaises(row) == ~StatusInProgress(row) /\ ParseRaises(row.ts)

\* compute_backup_status, where it returns
ComputeBackupStatus(row, now) ==
    IF StatusInProgress(row)
    THEN "Warning"
    ELSE LET dt == ParseToUtcDatetime(row.ts) IN
         IF dt # None
         THEN IF AgeAtMostHours(now, Get(dt), 12) THEN "Success"
              ELSE IF AgeAtMostHours(now, Get(dt), 23) THEN "Warning"
              ELSE "Failure"
         ELSE "Failure"

JOB_NAME == "EPBv2"

\* one element of _build_csv_rows
CsvRow(r, now) ==
    [Device |-> IF r.AssetName = None THEN "" ELSE Get(r.AssetName),
     Status |-> ComputeBackupStatus(r, now),
     BackupDate |-> ParseToUtcDatetime(r.ts),
     Client |-> IF r.Organization = None THEN "" ELSE Get(r.Organization),
     Job |-> JOB_NAME]

\* _build_csv_rows
BuildCsvRows(rows, now) == [i \in 1..Len(rows) |-> CsvRow(rows[i], now)]

NowHour(now) == (now.sec \div 3600) % 24


\* the full run taken at midnight instead of 21:00
IsDailyFullRunMidnight(now) == NowHour(now) = 0

\* now_utc.hour == 21
IsDailyFullRun(now) == NowHour(now) = 21

\* ------------------------------------------------------------ asset rows
\* str(r.get("AssetId") or "")
Aid(r) == IF r.AssetId = None THEN "" ELSE Get(r.AssetId)

\* the status compared and stored without strip()
CurrentStatusRaw(r) == IF r.Status = None THEN <<>> ELSE Get(r.Status)

\* (r.get("Status") or "").strip()
CurrentStatus(r) == Strip(IF r.Status = None THEN <<>> ELSE Get(r.Status))

\* rows if SAMPLE_COUNT == 0 else rows[:SAMPLE_COUNT]
ToProcess(rows, sample) ==
    IF sample = 0 THEN rows
    ELSE SubSeq(rows, 1, IF sample < Len(rows) THEN sample ELSE Len(rows))

\* ------------------------------------------------------- persisted state
EmptyState == [k \in {} |-> k]

\* no run taken for the first one
InitialRunNever(state) == FALSE

\* not bool(state)
InitialRun(state) == DOMAIN state = {}

\* new_state[aid] = entry
Put(state, k, e) ==
    [x \in (DOMAIN state) \cup {k} |-> IF x = k THEN e ELSE state[x]]

\* {"ts": ..., "status": current_status or None}
NewEntry(r) ==
    [ts |-> EpochSecondsOrNone(r.ts),
     status |-> IF CurrentStatus(r) = <<>> THEN None ELSE Some(CurrentStatus(r))]

\* What json.loads makes of the text of a file: an object, an array, or a
\* ValueError.
\* json.dumps(state)
JsonObject(m) == [json |-> "object", val |-> m]

\* json.dump(rows_to_save, f)
JsonArray(rows) == [json |-> "array", val |-> rows]

\* text cut short by the death of the writer
Truncated == [json |-> "invalid"]

\* load_state: a missing file, text that json.loads rejects and JSON that is
\* not a dict are all the empty mapping
LoadState(file) ==
    IF file = None THEN EmptyState
    ELSE IF Get(file).json = "object" THEN Get(file).val
    ELSE EmptyState

\* main: the rows of the data file; None where main returns 1 (file missing,
\* json.loads raises, or the JSON is not a list)
ReadData(file) ==
    IF file = None THEN None
    ELSE IF Get(file).json = "array" THEN Some(Get(file).val)
    ELSE None

STATE_FILE == "assets_state.json"

\* the temporary file being the state file itself
TmpPathInPlace == "assets_state.json"

\* STATE_FILE.with_suffix(".tmp")
TmpPath == "assets_state.tmp"

\* the mode decided from the hour alone
IsFullNoSeed(initial, seed, now) == IsDailyFullRun(now)

\* the mode decision of main
IsFull(initial, seed, now) ==
    IF initial /\ seed THEN TRUE ELSE IsDailyFullRun(now)

\* the comparison inverted
NewerInverted(cur, stored) == cur < stored

\* current_ts_epoch > stored_ts_int
Newer(cur, stored) == cur > stored

\* the timestamp branch without its comparison with the stored instant
TimestampFlagAnyInstant(r, state) == EpochSecondsOrNone(r.ts) # None

\* timestamp branch of send_flag
TimestampFlag(r, state) ==
    LET aid == Aid(r)
        cur == EpochSecondsOrNone(r.ts)
        stored_ts == IF aid \in DOMAIN state THEN state[aid].ts ELSE None
    IN  /\ cur # None
        /\ (stored_ts = None \/ Newer(Get(cur), Get(stored_ts)))

\* the status branch without its "and not empty" test
StatusFlagAnyChange(r, state) ==
    LET aid == Aid(r)
        stored_status == IF aid \in DOMAIN state THEN state[aid].status ELSE None
        stored_or_empty == IF stored_status = None THEN <<>> ELSE Get(stored_status)
    IN  CurrentStatus(r) # stored_or_empty

\* status branch of send_flag
StatusFlag(r, state) ==
    LET aid == Aid(r)
        stored_status == IF aid \in DOMAIN state THEN state[aid].status ELSE None
        stored_or_empty == IF stored_status = None THEN <<>> ELSE Get(stored_status)
    IN  /\ CurrentStatus(r) # <<>>
        /\ CurrentStatus(r) # stored_or_empty

SendFlag(r, state) == TimestampFlag(r, state) \/ StatusFlag(r, state)

\* indices of to_process that the run puts in the CSV, in order
RECURSIVE SelectIdx(_, _, _, _)
SelectIdx(rows, state, full, i) ==
    IF i > Len(rows) THEN <<>>
    ELSE IF full \/ SendFlag(rows[i], state)
         THEN <<i>> \o SelectIdx(rows, state, full, i + 1)
         ELSE SelectIdx(rows, state, full, i + 1)

\* the update loop of main: every row whose id is in ids overwrites its key
RECURSIVE UpdateLoop(_, _, _, _, _)
UpdateLoop(acc, rows, full, ids, i) ==
    IF i > Len(rows) THEN acc
    ELSE IF full \/ Aid(rows[i]) \in ids
         THEN UpdateLoop(Put(acc, Aid(rows[i]), NewEntry(rows[i])), rows, full, ids, i + 1)
         ELSE UpdateLoop(acc, rows, full, ids, i + 1)

\* new_state after the "Update state only on success" block
NewState(state, rows, full, changed) ==
    UpdateLoop(state, rows, full, Range(changed), 1)

\* the run going on with an empty report
NothingToSendNever(rows) == FALSE

\* not rows_for_csv
NothingToSend(rows) == rows = <<>>

\* the state committed whatever the outcome of the send
ShouldCommitAlways(ok) == TRUE

\* if success:
ShouldCommit(ok) == ok


\* ---------------------------------------------------------------- inputs
Ok == <<"O", "k">>
OkPadded == <<" ", "O", "k", " ">>
OkLower == <<"o", "k">>
Dn == <<"D", "n">>
Blank == <<" ">>

Asset(id, name, status, ts) ==
    [AssetId |-> id, AssetName |-> name, Organization |-> Some("Org"),
     Status |-> status, ts |-> ts]

\* The inventories the remote service can hold; each is the set of snapshots
\* its assets can show in a fetch.
Fleets ==
    { \* one asset whose status changes only in formatting
      { Asset(Some("A1"), Some("n1"), Some(Ok), Some(Num(1000))),
        Asset(Some("A1"), Some("n1"), Some(OkPadded), Some(Num(1000))),
        Asset(Some("A1"), Some("n1"), Some(OkLower), Some(Num(1000))) },
      \* one asset whose backup instant moves by half a second and by more
      { Asset(Some("A1"), Some("n1"), Some(Ok), Some(Num(1000))),
        Asset(Some("A1"), Some("n1"), Some(Ok), Some(NumF(1000, 500))),
        Asset(Some("A1"), Some("n1"), Some(Ok), Some(Num(2000))) },
      \* two assets, one of which can lose its status and its instant
      { Asset(Some("A1"), Some("n1"), Some(Blank), Some(Num(1000))),
        Asset(Some("A2"), Some("n2"), Some(Dn), Some(Num(2000))),
        Asset(Some("A2"), Some("n2"), None, Some(Junk)) },
      \* three assets without identifier, one without status and instant
      { Asset(None, Some("n3"), Some(Ok), Some(Num(2000))),
        Asset(None, Some("n4"), Some(Dn), Some(Num(1000))),
        Asset(None, Some("n5"), None, None) } }

Fetches(rowset) == UNION {[1..n -> rowset] : n \in 1..MaxRows}

Hour == 3600
Day == 24 * Hour

\* the instants at which a run can start: 21:00 and 22:00 of the first day,
\* 21:00 of the second
NowValues ==
    { [sec |-> 21 * Hour, ms |-> 0],
      [sec |-> 22 * Hour, ms |-> 0],
      [sec |-> Day + 21 * Hour, ms |-> 0] }

SampleCounts == {0, 1}

\* ----------------------------------------------------------------- state
VARIABLES
    DRY_RUN,            \* configuration: simulate the send
    FIRST_RUN_FULL,     \* configuration: seed on first run
    SAMPLE_COUNT,       \* configuration: 0 = all rows, n = first n rows
    fleet,              \* the inventory of the remote service
    dataFile,           \* artifact/assets_rows.json: None or Some(content)
    stateFile,          \* artifact/assets_state.json: None or Some(content)
    tmpFile,            \* artifact/assets_state.tmp
    csvFile,            \* artifact/current_assets.csv: None or Some(number of rows)
    now,                \* the clock
    pc,                 \* position of the running script
    to_process, state, initial_run, is_full,
    rows_for_csv, changed_asset_ids, success, failed, new_state,
    save_arg,           \* the argument of the save_state call in progress
    exit_code,          \* what main of the last notifier run returned, if it did
    crashed,            \* the last notifier run was killed before it returned
    api_exit,           \* exit code of the last API.py run that failed to fetch
    report_src,         \* indices in to_process of the rows of rows_for_csv
    fileAtStart,        \* content of the state file when the run loaded it
    last_failed,        \* the previous run, when its send failed: what it reported
    same_data,          \* that failed run read the data file as it is now
    after_full,         \* the previous run was a delivered FULL run over the
                        \* data file as it is now
    runs,               \* number of notifier runs started
    arg_row,            \* a call of a function on its own: the row passed
    arg_now,            \* the clock during that call
    ret_status,         \* outcome of compute_backup_status(arg_row)
    ret_dt              \* outcome of _parse_to_utc_datetime of the row's timestamp

config == <<DRY_RUN, FIRST_RUN_FULL, SAMPLE_COUNT, fleet>>
files == <<dataFile, stateFile, tmpFile, csvFile>>
locals == <<to_process, state, initial_run, is_full, rows_for_csv,
            changed_asset_ids, success, failed, new_state, save_arg,
            report_src, fileAtStart>>
history == <<last_failed, same_data, after_full>>
calls == <<arg_row, arg_now, ret_status, ret_dt>>
vars == <<config, files, now, pc, locals, exit_code, crashed, api_exit,
          history, runs, calls>>

\* no script has run yet
NoRun ==
    /\ dataFile = None
    /\ stateFile = None
    /\ tmpFile = None
    /\ csvFile = None
    /\ now = [sec |-> 21 * Hour, ms |-> 0]
    /\ pc = "off"
    /\ to_process = <<>>
    /\ state = EmptyState
    /\ initial_run = FALSE
    /\ is_full = None
    /\ rows_for_csv = <<>>
    /\ changed_asset_ids = <<>>
    /\ success = FALSE
    /\ failed = 0
    /\ new_state = EmptyState
    /\ save_arg = EmptyState
    /\ exit_code = None
    /\ crashed = FALSE
    /\ api_exit = None
    /\ report_src = <<>>
    /\ fileAtStart = None
    /\ last_failed = None
    /\ same_data = FALSE
    /\ after_full = FALSE
    /\ runs = 0

Init ==
    /\ DRY_RUN \in BOOLEAN
    /\ FIRST_RUN_FULL \in BOOLEAN
    /\ SAMPLE_COUNT \in SampleCounts
    /\ fleet \in Fleets
    /\ NoRun
    /\ arg_row = None
    /\ arg_now = None
    /\ ret_status = None
    /\ ret_dt = None

\* ---------------------------------------------------------------- actions
\* Kills and damage from outside are injected into the last run of a history,
\* after any sequence of earlier runs.
\* return <code> from main of the notifier
Return(code) ==
    /\ pc' = "idle"
    /\ exit_code' = Some(code)

\* Path.write_text(content) on the file of that path
WriteText(path, content) ==
    /\ stateFile' = IF path = STATE_FILE THEN content ELSE stateFile
    /\ tmpFile' = IF path = STATE_FILE THEN tmpFile ELSE content

\* Path.replace(STATE_FILE) of the file of that path
Replace(path) ==
    /\ stateFile' = IF path = STATE_FILE THEN stateFile ELSE tmpFile
    /\ tmpFile' = IF path = STATE_FILE THEN tmpFile ELSE None

\* a new process starts with fresh locals
FreshLocals ==
    /\ to_process' = <<>>
    /\ state' = EmptyState
    /\ initial_run' = FALSE
    /\ is_full' = None
    /\ rows_for_csv' = <<>>
    /\ changed_asset_ids' = <<>>
    /\ success' = FALSE
    /\ failed' = 0
    /\ new_state' = EmptyState
    /\ save_arg' = EmptyState
    /\ report_src' = <<>>
    /\ fileAtStart' = None

\* what the next run remembers of the run that just ended
Summary ==
    IF failed > 0
    THEN Some([is_full |-> Get(is_full), initial_run |-> initial_run,
               src |-> report_src])
    ELSE None

\* the run that just ended sent a FULL report
DeliveredFull == pc = "idle" /\ ~crashed /\ success /\ is_full = Some(TRUE)

\* sys.exit(main()): the process is gone with what it held in memory, and
\* its exit code has gone to the caller; what the next run is compared with
\* is remembered
Exit ==
    /\ pc = "idle"
    /\ runs < MaxRuns
    /\ last_failed' = Summary
    /\ same_data' = (failed > 0)
    /\ after_full' = DeliveredFull
    /\ FreshLocals
    /\ pc' = "off"
    /\ exit_code' = None
    /\ crashed' = FALSE
    /\ UNCHANGED <<config, calls, files, now, api_exit, runs>>

\* API.py main: no token, or no assets returned
ApiFetchFails ==
    /\ pc = "off"
    /\ api_exit # Some(1)
    /\ api_exit' = Some(1)
    /\ UNCHANGED <<config, calls, files, now, pc, locals, exit_code, crashed,
                   history, runs>>

\* API.py main: rows fetched, written to the data file, notifier launched
ApiMain ==
    /\ pc = "off"
    /\ runs < MaxRuns
    /\ \E rows \in Fetches(fleet) :
         /\ dataFile' = Some(JsonArray(rows))
         /\ same_data' = (same_data /\ dataFile = Some(JsonArray(rows)))
         /\ after_full' = (after_full /\ dataFile = Some(JsonArray(rows)))
    /\ pc' = "start"
    /\ api_exit' = None
    /\ runs' = runs + 1
    /\ UNCHANGED <<config, calls, stateFile, tmpFile, csvFile, now, locals,
                   exit_code, crashed, last_failed>>

\* the notifier launched on its own, on the data file as it is
CliStart ==
    /\ pc = "off"
    /\ runs < MaxRuns
    /\ pc' = "start"
    /\ api_exit' = None
    /\ runs' = runs + 1
    /\ UNCHANGED <<config, calls, files, now, locals, exit_code, crashed, history>>

\* main, up to the mode decision, with datetime.now() among the given instants
Load(instants) ==
    /\ pc = "start"
    /\ \E n \in instants : n.sec >= now.sec /\ now' = n
    /\ fileAtStart' = stateFile
    /\ IF ReadData(dataFile) = None
       THEN /\ Return(1)
            /\ UNCHANGED <<to_process, state, initial_run, is_full, new_state>>
       ELSE /\ to_process' = ToProcess(Get(ReadData(dataFile)), SAMPLE_COUNT)
            /\ state' = LoadState(stateFile)
            /\ initial_run' = InitialRun(state')
            /\ IF initial_run' /\ ~FIRST_RUN_FULL
               THEN /\ pc' = "save_tmp"
                    /\ UNCHANGED <<new_state, is_full>>
               ELSE /\ new_state' = state'
                    /\ is_full' = Some(IsFull(initial_run', FIRST_RUN_FULL, now'))
                    /\ pc' = "reconcile"
            /\ UNCHANGED exit_code
    /\ UNCHANGED <<config, calls, files, rows_for_csv, changed_asset_ids, success,
                   failed, save_arg, report_src, api_exit, crashed, history, runs>>

NotifierLoad == Load(NowValues)

\* the choice of the rows depending on the day of the run
ReconcileByDay ==
    /\ pc = "reconcile"
    /\ LET src == SelectIdx(to_process, state, Get(is_full) \/ now.sec >= Day, 1) IN
       /\ report_src' = src
       /\ rows_for_csv' = [k \in 1..Len(src) |-> CsvRow(to_process[src[k]], now)]
       /\ changed_asset_ids' = [k \in 1..Len(src) |-> Aid(to_process[src[k]])]
       /\ IF NothingToSend(rows_for_csv')
          THEN Return(0)
          ELSE pc' = "write_csv" /\ UNCHANGED exit_code
    /\ UNCHANGED <<config, calls, files, now, to_process, state, initial_run,
                   is_full, success, failed, new_state, save_arg, fileAtStart,
                   api_exit, crashed, history, runs>>

\* main: choice of the rows to send
Reconcile ==
    /\ pc = "reconcile"
    /\ LET src == SelectIdx(to_process, state, Get(is_full), 1) IN
       /\ report_src' = src
       /\ rows_for_csv' = [k \in 1..Len(src) |-> CsvRow(to_process[src[k]], now)]
       /\ changed_asset_ids' = [k \in 1..Len(src) |-> Aid(to_process[src[k]])]
       /\ IF NothingToSend(rows_for_csv')
          THEN Return(0)
          ELSE pc' = "write_csv" /\ UNCHANGED exit_code
    /\ UNCHANGED <<config, calls, files, now, to_process, state, initial_run,
                   is_full, success, failed, new_state, save_arg, fileAtStart,
                   api_exit, crashed, history, runs>>

\* _write_csv succeeds
WriteCsv ==
    /\ pc = "write_csv"
    /\ csvFile' = Some(Len(rows_for_csv))
    /\ pc' = "send"
    /\ UNCHANGED <<config, calls, dataFile, stateFile, tmpFile, now, locals,
                   exit_code, api_exit, crashed, history, runs>>

\* _write_csv raises
WriteCsvFails ==
    /\ pc = "write_csv"
    /\ Return(1)
    /\ UNCHANGED <<config, calls, files, now, locals, api_exit, crashed, history, runs>>

\* the send succeeds (always, when simulated)
Send ==
    /\ pc = "send"
    /\ success' = TRUE
    /\ pc' = "update"
    /\ UNCHANGED <<config, calls, files, now, to_process, state, initial_run,
                   is_full, rows_for_csv, changed_asset_ids, failed, new_state,
                   save_arg, report_src, fileAtStart, exit_code, api_exit, crashed,
                   history, runs>>

\* the simulated send failing like the real one
SendFailsSimulated ==
    /\ pc = "send"
    /\ failed' = failed + 1
    /\ pc' = "update"
    /\ UNCHANGED <<config, calls, files, now, to_process, state, initial_run,
                   is_full, rows_for_csv, changed_asset_ids, success, new_state,
                   save_arg, report_src, fileAtStart, exit_code, api_exit, crashed,
                   history, runs>>

\* _send_email_real raises
SendFails ==
    /\ pc = "send"
    /\ ~DRY_RUN
    /\ failed' = failed + 1
    /\ pc' = "update"
    /\ UNCHANGED <<config, calls, files, now, to_process, state, initial_run,
                   is_full, rows_for_csv, changed_asset_ids, success, new_state,
                   save_arg, report_src, fileAtStart, exit_code, api_exit, crashed,
                   history, runs>>

\* main: "Update state only on success"
UpdateState ==
    /\ pc = "update"
    /\ IF ShouldCommit(success)
       THEN /\ new_state' = NewState(new_state, to_process, Get(is_full),
                                     changed_asset_ids)
            /\ save_arg' = new_state'
            /\ pc' = "save_tmp"
            /\ UNCHANGED exit_code
       ELSE /\ Return(0)
            /\ UNCHANGED <<new_state, save_arg>>
    /\ UNCHANGED <<config, calls, files, now, to_process, state, initial_run,
                   is_full, rows_for_csv, changed_asset_ids, success, failed,
                   report_src, fileAtStart, api_exit, crashed, history, runs>>

\* save_state: tmp.write_text
SaveWriteTmp ==
    /\ pc = "save_tmp"
    /\ WriteText(TmpPath, Some(JsonObject(save_arg)))
    /\ pc' = "save_replace"
    /\ UNCHANGED <<config, calls, dataFile, csvFile, now, locals,
                   exit_code, api_exit, crashed, history, runs>>

\* save_state: tmp.replace(STATE_FILE); main then returns 0
SaveReplace ==
    /\ pc = "save_replace"
    /\ Replace(TmpPath)
    /\ Return(0)
    /\ UNCHANGED <<config, calls, dataFile, csvFile, now, locals, api_exit, crashed,
                   history, runs>>

\* save_state: the write or the rename raises; the exception is swallowed
\* with a warning and main returns 0
SaveFails ==
    /\ pc \in {"save_tmp", "save_replace"}
    /\ Return(0)
    /\ UNCHANGED <<config, calls, files, now, locals, api_exit, crashed, history, runs>>

\* before the run reads it the data file is cut short (API.py killed inside
\* json.dump) or replaced by JSON that is not a list
DataFileDamaged ==
    /\ runs = MaxRuns
    /\ pc = "start"
    /\ ReadData(dataFile) # None
    /\ dataFile' \in {Some(Truncated), Some(JsonObject(EmptyState))}
    /\ UNCHANGED <<config, calls, stateFile, tmpFile, csvFile, now, pc, locals,
                   exit_code, api_exit, crashed, history, runs>>

\* before the run reads it the state file is cut short, or replaced by JSON
\* that is not an object
StateFileDamaged ==
    /\ runs = MaxRuns
    /\ pc = "start"
    /\ stateFile # None
    /\ Get(stateFile).json = "object"
    /\ stateFile' \in {Some(Truncated), Some(JsonArray(<<>>))}
    /\ UNCHANGED <<config, calls, dataFile, tmpFile, csvFile, now, pc, locals,
                   exit_code, api_exit, crashed, history, runs>>

\* the notifier is killed between two steps of main; what it held in memory
\* is lost
Crash ==
    /\ runs = MaxRuns
    /\ pc \notin {"off", "idle"}
    /\ crashed' = TRUE
    /\ pc' = "idle"
    /\ FreshLocals
    /\ UNCHANGED <<config, calls, files, now, exit_code, api_exit, history, runs>>

\* the notifier is killed inside tmp.write_text
CrashInWrite ==
    /\ runs = MaxRuns
    /\ pc = "save_tmp"
    /\ WriteText(TmpPath, Some(Truncated))
    /\ crashed' = TRUE
    /\ pc' = "idle"
    /\ FreshLocals
    /\ UNCHANGED <<config, calls, dataFile, csvFile, now, exit_code, api_exit,
                   history, runs>>

Next ==
    \/ Exit
    \/ ApiFetchFails
    \/ DataFileDamaged
    \/ StateFileDamaged
    \/ Crash
    \/ CrashInWrite
    \/ ApiMain
    \/ CliStart
    \/ NotifierLoad
    \/ Reconcile
    \/ WriteCsv
    \/ WriteCsvFails
    \/ Send
    \/ SendFails
    \/ UpdateState
    \/ SaveWriteTmp
    \/ SaveReplace
    \/ SaveFails

Spec == Init /\ [][Next]_vars

\* ------------------------------------------- the two functions on their own
InProgressCapital == <<"I", "n", " ", "P", "r", "o", "g", "r", "e", "s", "s">>
BackupInProgress ==
    <<"B", "K", " ", "I", "N", " ", "P", "R", "O", "G", "R", "E", "S", "S">>
InProgressWide == <<"i", "n", " ", " ", "p", "r", "o", "g", "r", "e", "s", "s">>

CallStatuses ==
    {None, Some(<<>>), Some(Ok), Some(InProgress), Some(InProgressCapital),
     Some(BackupInProgress), Some(InProgressWide)}

\* the clock of the calls: hour 100 after the epoch, and half a second later
CallNows == {[sec |-> 100 * Hour, ms |-> 0], [sec |-> 100 * Hour, ms |-> 500]}

Raw(hi, lo) == [t |-> "num", hi |-> hi, lo |-> lo, frac |-> 0]

\* raw timestamps: 12 and 23 hours before hour 100 to the millisecond, past
\* and future values, values around 10^12 and below -10^12, strings
CallTimestamps ==
    {None,
     Some(Num(88 * Hour)), Some(NumF(88 * Hour - 1, 999)),
     Some(NumF(88 * Hour, 500)), Some(NumF(88 * Hour, 499)),
     Some(Num(77 * Hour)), Some(NumF(77 * Hour - 1, 999)),
     Some(NumF(77 * Hour, 500)),
     Some(Num(0)), Some(Num(101 * Hour)), Some(Num(-5)),
     Some(Raw(MillisThresholdHi, 0)), Some(Raw(MillisThresholdHi, 1)),
     Some(Raw(-2 * MillisThresholdHi, 0)),
     Some(Str(<<"3", "1", "6", "8", "0", "0">>)),
     Some(Str(<<" ", "3", "1", "6", "8", "0", "0", " ">>)),
     Some(Str(<<"1", "0", "0", "0", "0", "0", "0", "0", "0", "0", "0", "0", "1">>)),
     Some(Str(<<>>)), Some(Str(<<" ">>)), Some(Str(<<"1", "2", "x">>)),
     Some(Str(<<"^2">>)),
     Some([t |-> "iso", sec |-> 88 * Hour, ms |-> 0]),
     Some(Junk)}

\* how a call ended
Returned(v) == [raised |-> FALSE, value |-> v]
Raised == [raised |-> TRUE]

FnInit ==
    /\ DRY_RUN = TRUE
    /\ FIRST_RUN_FULL = TRUE
    /\ SAMPLE_COUNT = 0
    /\ fleet = {}
    /\ NoRun
    /\ \E st \in CallStatuses, ts \in CallTimestamps :
         arg_row = Asset(Some("A1"), Some("n1"), st, ts)
    /\ arg_now \in CallNows
    /\ ret_status = None
    /\ ret_dt = None

\* compute_backup_status(arg_row) at arg_now
CallComputeBackupStatus ==
    /\ ret_status = None
    /\ ret_status' =
         Some(IF ComputeRaises(arg_row)
              THEN Raised
              ELSE Returned(ComputeBackupStatus(arg_row, arg_now)))
    /\ UNCHANGED <<config, files, now, pc, locals, exit_code, crashed,
                   api_exit, history, runs, arg_row, arg_now, ret_dt>>

\* _parse_to_utc_datetime(arg_row["lastSuccessfulBackupTimestamp"])
CallParseToUtcDatetime ==
    /\ ret_dt = None
    /\ ret_dt' =
         Some(IF ParseRaises(arg_row.ts)
              THEN Raised
              ELSE Returned(ParseToUtcDatetime(arg_row.ts)))
    /\ UNCHANGED <<config, files, now, pc, locals, exit_code, crashed,
                   api_exit, history, runs, arg_row, arg_now, ret_status>>

FnNext ==
    \/ CallComputeBackupStatus
    \/ CallParseToUtcDatetime

FnSpec == FnInit /\ [][FnNext]_vars

\* ------------------------------------------ the runs that follow a seed run
\* the instants of the runs that follow a seed run of 21:00: 22:00 of that
\* day, 22:00 and 23:00 of the next
LaterValues ==
    { [sec |-> 22 * Hour, ms |-> 0],
      [sec |-> Day + 22 * Hour, ms |-> 0],
      [sec |-> Day + 23 * Hour, ms |-> 0] }

\* what a delivered run over the loaded state st and the rows to process
\* hands to save_state, in FULL mode or in INCREMENTAL mode
CommitOf(st, rows, full) ==
    LET src == SelectIdx(rows, st, full, 1)
    IN  NewState(st, rows, full, [k \in 1..Len(src) |-> Aid(rows[src[k]])])

\* the inventories of Fleets, and one with an asset that can show an older
\* instant under another status
LaterFleets ==
    Fleets \cup
    { { Asset(Some("A1"), Some("n1"), Some(Ok), Some(Num(2000))),
        Asset(Some("A1"), Some("n1"), Some(Dn), Some(Num(1000))),
        Asset(Some("A2"), Some("n2"), Some(Ok), Some(Num(1000))) } }

\* A seed run of 21:00 over an earlier fetch has been delivered and committed;
\* API.py has fetched again and launched the notifier.
AgeInit ==
    /\ DRY_RUN \in BOOLEAN
    /\ FIRST_RUN_FULL = TRUE
    /\ SAMPLE_COUNT \in SampleCounts
    /\ fleet \in LaterFleets
    /\ \E seeded \in Fetches(fleet), rows \in Fetches(fleet) :
         /\ stateFile = Some(JsonObject(CommitOf(EmptyState,
                              ToProcess(seeded, SAMPLE_COUNT), TRUE)))
         /\ csvFile = Some(Len(ToProcess(seeded, SAMPLE_COUNT)))
         /\ dataFile = Some(JsonArray(rows))
         /\ after_full = (rows = seeded)
    /\ tmpFile = None
    /\ now = [sec |-> 21 * Hour, ms |-> 0]
    /\ pc = "start"
    /\ to_process = <<>>
    /\ state = EmptyState
    /\ initial_run = FALSE
    /\ is_full = None
    /\ rows_for_csv = <<>>
    /\ changed_asset_ids = <<>>
    /\ success = FALSE
    /\ failed = 0
    /\ new_state = EmptyState
    /\ save_arg = EmptyState
    /\ report_src = <<>>
    /\ fileAtStart = None
    /\ exit_code = None
    /\ crashed = FALSE
    /\ api_exit = None
    /\ last_failed = None
    /\ same_data = FALSE
    /\ runs = 2
    /\ arg_row = None
    /\ arg_now = None
    /\ ret_status = None
    /\ ret_dt = None

\* main, up to the mode decision, at an instant later than the last run's
LoadLater == Load({n \in LaterValues : n.sec > now.sec})

\* the notifier run again and again, on a new fetch or on the data file as
\* it is
AgeNext ==
    \/ ApiMain
    \/ LoadLater
    \/ Reconcile
    \/ WriteCsv
    \/ WriteCsvFails
    \/ Send
    \/ SendFails
    \/ UpdateState
    \/ SaveWriteTmp
    \/ SaveReplace
    \/ SaveFails
    \/ Exit
    \/ CliStart

AgeSpec == AgeInit /\ [][AgeNext]_vars


\* ---------------------------------------------------------------- claims
\* the run has chosen its report (and keeps it until the next launch)
Reconciled == is_full # None /\ pc # "reconcile"

\* the run has ended
Ended == pc = "idle" /\ runs > 0 /\ ~crashed

\* the persisted state the run started from has no key
StateEmptyAtStart ==
    \/ fileAtStart = None
    \/ Get(fileAtStart).json # "object"
    \/ DOMAIN Get(fileAtStart).val = {}

\* the set of keys of the rows
IdsOf(rows) == {Aid(rows[i]) : i \in 1..Len(rows)}

\* the rows of the data file
Fetched == IF ReadData(dataFile) = None THEN <<>> ELSE Get(ReadData(dataFile))

\* the run put row i of to_process in its report
Reported(i) == i \in Range(report_src)

\* C1: once the send of a run has failed, the state file holds what it held
\* when the run loaded it, in FULL and in INCREMENTAL mode alike.
C1_NoCommitOnFailure ==
    failed > 0 => stateFile = fileAtStart

\* a failed INCREMENTAL run over a non-empty state whose commit would have
\* changed the state has ended
C1_Witness ==
    /\ Ended
    /\ failed > 0
    /\ is_full = Some(FALSE)
    /\ fileAtStart # None
    /\ NewState(state, to_process, FALSE, changed_asset_ids) # state
    /\ stateFile = fileAtStart

\* C2: every run whose send succeeded ends with the state file holding the
\* run's new state.
C2_DeliveredImpliesCommitted ==
    (Ended /\ success) => stateFile = Some(JsonObject(new_state))

\* C3: after a delivered and committed FULL run the keys of the persisted
\* state are exactly the identifiers of the rows the run processed.
C3_FullResetsCoverage ==
    (/\ Ended
     /\ success
     /\ is_full = Some(TRUE)
     /\ stateFile = Some(JsonObject(new_state)))
        => DOMAIN Get(stateFile).val = IdsOf(to_process)


\* the previous run's send failed and this run, over the same data file, has
\* chosen its report
RetryReconciled == last_failed # None /\ same_data /\ Reconciled

\* C4 as stated: the run that follows a failed send over the same fetch
\* reports every row the failed run reported, whatever its mode.
C4_RetriedInFullAnyMode ==
    RetryReconciled => Range(Get(last_failed).src) \subseteq Range(report_src)

\* the failed run was a FULL run over a non-empty state and this one is
\* INCREMENTAL
FullThenIncremental ==
    /\ Get(last_failed).is_full
    /\ ~Get(last_failed).initial_run
    /\ is_full = Some(FALSE)

\* C4 (amended): the run that follows a failed send over the same fetch
\* reports every row the failed run reported, unless the failed run was a
\* FULL run over a non-empty state and the next run is INCREMENTAL.
C4_RetriedInFull ==
    (RetryReconciled /\ ~FullThenIncremental)
        => Range(Get(last_failed).src) \subseteq Range(report_src)

\* an INCREMENTAL run retries the non-empty report of a failed INCREMENTAL
\* run, and a following run repeats a failed seed run
C4_Witness ==
    /\ RetryReconciled
    /\ ~Get(last_failed).is_full
    /\ is_full = Some(FALSE)
    /\ Get(last_failed).src # <<>>
    /\ report_src = Get(last_failed).src
    /\ Len(report_src) < Len(to_process)

\* the stored entry of row r holds r's instant in whole seconds
SameStoredInstant(r) ==
    /\ Aid(r) \in DOMAIN state
    /\ state[Aid(r)].ts # None
    /\ EpochSecondsOrNone(r.ts) = state[Aid(r)].ts

StoredStatusOrEmpty(r) ==
    IF Aid(r) \in DOMAIN state /\ state[Aid(r)].status # None
    THEN Get(state[Aid(r)].status)
    ELSE <<>>

RawStatusOrEmpty(r) == IF r.Status = None THEN <<>> ELSE Get(r.Status)

\* C5 as stated: an INCREMENTAL run reports no row whose instant is the one
\* stored for its asset and whose status differs from the stored one at most
\* in letter case and surrounding whitespace.
C5_NoRowForSameInstantAnyFormatting ==
    (Reconciled /\ is_full = Some(FALSE)) =>
        \A i \in 1..Len(to_process) :
            (/\ SameStoredInstant(to_process[i])
             /\ Lower(Strip(RawStatusOrEmpty(to_process[i])))
                    = Lower(StoredStatusOrEmpty(to_process[i])))
                => ~Reported(i)

\* C5 (amended): an INCREMENTAL run reports no row whose instant is the one
\* stored for its asset and whose status differs from the stored one at most
\* in surrounding whitespace; a difference in letter case is a change.
C5_NoRowForSameInstant ==
    (Reconciled /\ is_full = Some(FALSE)) =>
        \A i \in 1..Len(to_process) :
            (/\ SameStoredInstant(to_process[i])
             /\ Strip(RawStatusOrEmpty(to_process[i]))
                    = StoredStatusOrEmpty(to_process[i]))
                => ~Reported(i)

\* an INCREMENTAL run has left out a row whose raw status is the stored one
\* with whitespace around it, while reporting another row
C5_Witness ==
    /\ Reconciled
    /\ is_full = Some(FALSE)
    /\ report_src # <<>>
    /\ \E i \in 1..Len(to_process) :
         /\ SameStoredInstant(to_process[i])
         /\ RawStatusOrEmpty(to_process[i]) # StoredStatusOrEmpty(to_process[i])
         /\ Strip(RawStatusOrEmpty(to_process[i])) = StoredStatusOrEmpty(to_process[i])
         /\ ~Reported(i)

\* dt is later than whole second t
LaterThanSecond(dt, t) == dt.sec > t \/ (dt.sec = t /\ dt.ms > 0)

\* C6 as stated: a run reports every fetched row whose normalized instant is
\* later than the instant stored for its asset.
C6_MonotonicAcceptanceAnyInstant ==
    Reconciled =>
        \A i \in 1..Len(Fetched) :
            LET r == Fetched[i] IN
            (/\ Aid(r) \in DOMAIN state
             /\ state[Aid(r)].ts # None
             /\ ParseToUtcDatetime(r.ts) # None
             /\ LaterThanSecond(Get(ParseToUtcDatetime(r.ts)), Get(state[Aid(r)].ts)))
                => (i <= Len(to_process) /\ Reported(i))

\* C6 (amended): a run, FULL or INCREMENTAL, reports every processed row
\* whose instant in whole seconds is greater than the instant stored for its
\* asset.
C6_MonotonicAcceptance ==
    Reconciled =>
        \A i \in 1..Len(to_process) :
            LET r == to_process[i] IN
            (/\ Aid(r) \in DOMAIN state
             /\ state[Aid(r)].ts # None
             /\ EpochSecondsOrNone(r.ts) # None
             /\ Get(EpochSecondsOrNone(r.ts)) > Get(state[Aid(r)].ts))
                => Reported(i)

\* an INCREMENTAL run has reported a row for its newer instant alone
C6_Witness ==
    /\ Reconciled
    /\ is_full = Some(FALSE)
    /\ \E i \in 1..Len(to_process) :
         LET r == to_process[i] IN
         /\ Aid(r) \in DOMAIN state
         /\ state[Aid(r)].ts # None
         /\ EpochSecondsOrNone(r.ts) # None
         /\ Get(EpochSecondsOrNone(r.ts)) > Get(state[Aid(r)].ts)
         /\ Strip(RawStatusOrEmpty(r)) = StoredStatusOrEmpty(r)
         /\ Reported(i)


\* the run found data and got past the first-run test
RunLoaded ==
    /\ runs > 0
    /\ pc \notin {"off", "start"}
    /\ ~crashed
    /\ ReadData(dataFile) # None

\* the run is in the "State missing and FIRST_RUN_FULL=False" branch
InSkipBranch == pc \in {"save_tmp", "save_replace"} /\ is_full = None

\* C7: once a run with seeding disabled has persisted its state marker, no
\* later run takes the first-run branch: the branch is only taken while no
\* state file has been written.
C7_FirstRunBranchOnlyOnce ==
    InSkipBranch => fileAtStart # Some(JsonObject(EmptyState))

TimestampRule(r) ==
    /\ EpochSecondsOrNone(r.ts) # None
    /\ \/ Aid(r) \notin DOMAIN state
       \/ state[Aid(r)].ts = None
       \/ Get(EpochSecondsOrNone(r.ts)) > Get(state[Aid(r)].ts)

\* C9 as stated: in an INCREMENTAL run a fetched row is reported exactly when
\* (a) holds or its raw status is non-empty and differs from the stored one.
C9_IncrementalReportSetRaw ==
    (Reconciled /\ is_full = Some(FALSE)) =>
        \A i \in 1..Len(Fetched) :
            LET r == Fetched[i] IN
            (i <= Len(to_process) /\ Reported(i))
                <=> \/ TimestampRule(r)
                    \/ /\ RawStatusOrEmpty(r) # <<>>
                       /\ RawStatusOrEmpty(r) # StoredStatusOrEmpty(r)

\* C9 (amended): in an INCREMENTAL run a processed row is reported exactly
\* when (a) holds or its status, stripped of surrounding whitespace, is
\* non-empty and differs from the stored one (a missing one counting as
\* empty); a row beyond the first SAMPLE_COUNT rows is never reported.
C9_IncrementalReportSet ==
    (Reconciled /\ is_full = Some(FALSE)) =>
        /\ \A i \in 1..Len(to_process) :
             LET r == to_process[i] IN
             Reported(i)
                <=> \/ TimestampRule(r)
                    \/ /\ Strip(RawStatusOrEmpty(r)) # <<>>
                       /\ Strip(RawStatusOrEmpty(r)) # StoredStatusOrEmpty(r)
        /\ Range(report_src) \subseteq 1..Len(to_process)

\* an INCREMENTAL run has reported one row for its status alone and left out
\* a row without status whose asset has a stored status
C9_Witness ==
    /\ Reconciled
    /\ is_full = Some(FALSE)
    /\ \E i \in 1..Len(to_process) :
         /\ ~TimestampRule(to_process[i])
         /\ Reported(i)
    /\ \E i \in 1..Len(to_process) :
         /\ Strip(RawStatusOrEmpty(to_process[i])) = <<>>
         /\ StoredStatusOrEmpty(to_process[i]) # <<>>
         /\ ~Reported(i)

\* C10: a delivered and committed INCREMENTAL run sets the entry of every
\* reported row to that row's own instant and status and leaves every other
\* key of the mapping as it was.
C10_IncrementalCommitFrame ==
    (/\ Ended
     /\ success
     /\ is_full = Some(FALSE)
     /\ stateFile = Some(JsonObject(new_state))) =>
        /\ \A i \in Range(report_src) :
             /\ Aid(to_process[i]) \in DOMAIN new_state
             /\ new_state[Aid(to_process[i])] = NewEntry(to_process[i])
        /\ \A k \in (DOMAIN new_state) \cup (DOMAIN state) :
             k \notin {Aid(to_process[i]) : i \in Range(report_src)}
                => (k \in DOMAIN state /\ k \in DOMAIN new_state
                    /\ new_state[k] = state[k])

\* C11: a run whose reconciliation yields no report row, in FULL or in
\* INCREMENTAL mode, has ended there with exit code 0: it made no attempt to
\* send and the state file holds what it held when the run loaded it.
C11_EmptyReportNoOp ==
    (Reconciled /\ report_src = <<>>) =>
        /\ pc = "idle"
        /\ exit_code = Some(0)
        /\ ~success
        /\ failed = 0
        /\ stateFile = fileAtStart

\* an INCREMENTAL run over a non-empty state and a non-empty fetch has found
\* nothing to report
C11_Witness ==
    /\ Ended
    /\ is_full = Some(FALSE)
    /\ to_process # <<>>
    /\ DOMAIN state # {}
    /\ report_src = <<>>
    /\ exit_code = Some(0)
    /\ stateFile = fileAtStart

\* C12: a run whose send failed ends with a non-zero exit code, and a run
\* that ends with exit code 0 has delivered and committed its report or was
\* a no-op (nothing to report, or the skipped first run).
C12_ExitCodeOnDeliveryFailure ==
    Ended =>
        /\ failed > 0 => exit_code # Some(0)
        /\ exit_code = Some(0) =>
             \/ success /\ stateFile = Some(JsonObject(new_state))
             \/ Reconciled /\ report_src = <<>>
             \/ is_full = None

\* the keys of the persisted state
PersistedKeys == DOMAIN LoadState(stateFile)

\* C13: whatever the run was (FULL, INCREMENTAL, failed send, failed state
\* write), when it has ended the keys of the persisted state are exactly the
\* keys the run loaded and the identifiers of the rows of the report it sent.
C13_StateMembership ==
    Ended =>
        PersistedKeys = DOMAIN LoadState(fileAtStart)
                          \cup (IF success THEN Range(changed_asset_ids) ELSE {})

\* the run ended in a terminal state of the run state machine: nothing to
\* report, delivered and committed, or delivery failed and state unchanged
TerminalState ==
    \/ Reconciled /\ report_src = <<>>
    \/ success /\ stateFile = Some(JsonObject(new_state))
    \/ failed > 0 /\ ~success /\ stateFile = fileAtStart

\* C14: a run that returns a non-zero exit code (no usable fetch, data file
\* missing, unparsable or not a list, CSV not writable) has sent nothing and
\* the state file holds what it held when the run started; and every run that
\* ends is in a terminal state of the run state machine (the skipped first
\* run counting as one) or has returned non-zero.
C14_NonZeroExitNoMutation ==
    /\ exit_code = Some(1) => (~success /\ stateFile = fileAtStart)
    /\ api_exit = Some(1) => pc = "off"
    /\ Ended => (TerminalState \/ is_full = None \/ exit_code = Some(1))

\* the magnitude of the value exceeds 10^12
MagnitudeAboveThreshold(v) ==
    \/ AboveMillisThreshold(v)
    \/ v.hi < -MillisThresholdHi
    \/ v.hi = -MillisThresholdHi /\ (v.lo < 0 \/ v.frac > 0)

\* the instant of a number: milliseconds when its magnitude exceeds 10^12,
\* seconds otherwise, none outside the range of dates
InstantOfNumber(v) ==
    IF MagnitudeAboveThreshold(v)
    THEN Some([sec |-> v.hi * 1000 + (v.lo \div 1000), ms |-> v.lo % 1000])
    ELSE IF FromTimestampRaises(v)
         THEN None
         ELSE Some([sec |-> v.hi * Million + v.lo, ms |-> v.frac])

\* the instant of a raw value
InstantOf(ts) ==
    IF ts = None THEN None
    ELSE LET v == Get(ts) IN
         CASE v.t = "num" -> InstantOfNumber(v)
           [] v.t = "str" ->
                IF Strip(v.s) # <<>>
                   /\ \A i \in 1..Len(Strip(v.s)) : Strip(v.s)[i] \in AsciiDigits
                THEN InstantOfNumber(IntOf(Strip(v.s)))
                ELSE None
           [] v.t = "iso" -> Some([sec |-> v.sec, ms |-> v.ms])
           [] OTHER -> None

\* the age of dt at now is at most h hours
AtMostHoursOld(now_, dt, h) ==
    LET ds == now_.sec - dt.sec IN
    IF ds > 24 * Hour THEN FALSE
    ELSE IF ds < 0 THEN TRUE
    ELSE ds * 1000 + now_.ms - dt.ms <= h * Hour * 1000

\* the status holds "in progress" in any letter case
HoldsInProgress(st) ==
    /\ st # None
    /\ \E i \in 0..(Len(Get(st)) - Len(InProgress)) :
         \A k \in 1..Len(InProgress) : LowerChar(Get(st)[i + k]) = InProgress[k]

\* the level of a row by the rules of the claim
LevelOf(row, now_) ==
    IF HoldsInProgress(row.Status) THEN "Warning"
    ELSE IF InstantOf(row.ts) = None THEN "Failure"
    ELSE IF AtMostHoursOld(now_, Get(InstantOf(row.ts)), 12) THEN "Success"
    ELSE IF AtMostHoursOld(now_, Get(InstantOf(row.ts)), 23) THEN "Warning"
    ELSE "Failure"

\* C15: compute_backup_status returns Warning for a non-empty status holding
\* "in progress" in any letter case, whatever the timestamp; otherwise, with
\* an instant, Success up to 12 hours of age (negative ages included),
\* Warning above 12 and up to 23 hours, Failure above 23 hours; and Failure
\* when the timestamp yields no instant.
C15_StatusClassification ==
    ret_status # None =>
        Get(ret_status) = Returned(LevelOf(arg_row, arg_now))

\* C16: _parse_to_utc_datetime never raises; it reads a number as seconds, or
\* as milliseconds when its magnitude exceeds 10^12; an all-digit string as
\* the number it denotes; and gives no instant for an absent, empty or
\* unparsable value.
C16_TimestampNormalization ==
    ret_dt # None => Get(ret_dt) = Returned(InstantOf(arg_row.ts))

\* C17: a delivered FULL run that started from an empty persisted state and
\* fetched n rows has a report of n rows and leaves a state file of n keys,
\* one per fetched row, each holding that row's instant in whole seconds and
\* its status.
C17_SeedingFromEmptyState ==
    (Ended /\ success /\ is_full = Some(TRUE) /\ StateEmptyAtStart) =>
        /\ Len(rows_for_csv) = Len(Fetched)
        /\ Cardinality(PersistedKeys) = Len(Fetched)
        /\ \A i \in 1..Len(Fetched) :
             /\ Aid(Fetched[i]) \in PersistedKeys
             /\ LoadState(stateFile)[Aid(Fetched[i])] = NewEntry(Fetched[i])

\* C18: an INCREMENTAL run that follows a delivered FULL run over the same
\* fetch reports nothing, whatever the rows (no instant, no status, no
\* identifier).
C18_QuiescenceAfterFull ==
    (after_full /\ Reconciled /\ is_full = Some(FALSE)) => report_src = <<>>

\* C19: every step of main, a kill of the process at any point included,
\* leaves the state file holding what it held before the step or the whole
\* mapping passed to save_state: never a part of it.
C19_AtomicCommit ==
    [][(pc \notin {"off", "idle"} /\ pc' # pc) =>
          \/ stateFile' = stateFile
          \/ stateFile' = Some(JsonObject(save_arg))]_vars

\* the process was killed inside the write of the temporary file: that file
\* is cut short and the state file still holds a complete non-empty mapping
C19_Witness ==
    /\ crashed
    /\ tmpFile = Some(Truncated)
    /\ stateFile # None
    /\ Get(stateFile).json = "object"
    /\ DOMAIN Get(stateFile).val # {}

\* the state file the run loaded was missing, cut short or not a JSON object
StateUnusable == fileAtStart = None \/ Get(fileAtStart).json # "object"

\* C20 as stated: when the state file is missing, unreadable, not JSON or
\* not a JSON object, load_state returns the empty mapping and the run, with
\* seeding enabled, is FULL at any hour and reports every fetched row.
C20_UnreadableStateEveryFetchedRow ==
    (RunLoaded /\ FIRST_RUN_FULL /\ StateUnusable) =>
        /\ state = EmptyState
        /\ is_full = Some(TRUE)
        /\ Reconciled => Range(report_src) = 1..Len(Fetched)

\* C20 (amended): when the state file is missing, unreadable, not JSON or
\* not a JSON object, load_state returns the empty mapping and the run, with
\* seeding enabled, is FULL at any hour and reports every processed row:
\* every fetched row when SAMPLE_COUNT is 0, the first SAMPLE_COUNT fetched
\* rows otherwise.
C20_UnreadableStateSeedRun ==
    (RunLoaded /\ FIRST_RUN_FULL /\ StateUnusable) =>
        /\ state = EmptyState
        /\ is_full = Some(TRUE)
        /\ Len(to_process) =
             (IF SAMPLE_COUNT = 0 \/ SAMPLE_COUNT > Len(Fetched)
              THEN Len(Fetched)
              ELSE SAMPLE_COUNT)
        /\ \A i \in 1..Len(to_process) : to_process[i] = Fetched[i]
        /\ Reconciled => report_src = [i \in 1..Len(to_process) |-> i]

\* at 22:00 a run that found a state file cut short or holding a JSON array
\* is about to send a report of every fetched row
C20_Witness ==
    /\ RunLoaded
    /\ FIRST_RUN_FULL
    /\ fileAtStart # None
    /\ StateUnusable
    /\ NowHour(now) = 22
    /\ pc = "send"
    /\ is_full = Some(TRUE)
    /\ Len(Fetched) > 1
    /\ Range(report_src) = 1..Len(Fetched)

\* C21: with the simulated transport every send counts as a success, and
\* under either transport a run whose send succeeded hands to save_state, and
\* when the write goes through leaves in the state file, the mapping that the
\* rows to process, the loaded state and the mode determine.
C21_TransportAgnosticCommit ==
    /\ (DRY_RUN /\ pc = "update") => success
    /\ (success /\ pc \in {"save_tmp", "save_replace", "idle"}) =>
          /\ save_arg = CommitOf(LoadState(fileAtStart), to_process, Get(is_full))
          /\ (Ended /\ stateFile # fileAtStart) =>
                stateFile = Some(JsonObject(CommitOf(LoadState(fileAtStart),
                                                     to_process, Get(is_full))))

\* a simulated INCREMENTAL run over a non-empty state has committed a report
\* of some but not all of its rows
C21_Witness ==
    /\ DRY_RUN
    /\ Ended
    /\ success
    /\ is_full = Some(FALSE)
    /\ report_src # <<>>
    /\ Len(report_src) < Len(to_process)
    /\ stateFile # fileAtStart
    /\ stateFile = Some(JsonObject(new_state))

\* an INCREMENTAL run has chosen its report, over the data file and the
\* persisted state of an INCREMENTAL run of an earlier instant whose send
\* failed
IncrementalAgain ==
    /\ last_failed # None
    /\ same_data
    /\ ~Get(last_failed).is_full
    /\ Reconciled
    /\ is_full = Some(FALSE)

\* the stored entry of row i of to_process is what the row shows now
AsStored(i) ==
    /\ Aid(to_process[i]) \in DOMAIN state
    /\ state[Aid(to_process[i])] = NewEntry(to_process[i])

\* a CSV row without its health level
WithoutLevel(csv_row) == [csv_row EXCEPT !.Status = ""]

\* C22: an INCREMENTAL run over the data file and the persisted state of an
\* INCREMENTAL run of an earlier instant reports the same rows and, once
\* delivered, hands to save_state the mapping the rows and the loaded state
\* determine; a row that shows what is stored for it is not reported however
\* old it has become, and the rows written for another instant would differ
\* in the health level only.
C22_TimeIndependentReport ==
    /\ IncrementalAgain => report_src = Get(last_failed).src
    /\ (IncrementalAgain /\ success /\ pc \in {"save_tmp", "save_replace", "idle"}) =>
          save_arg = CommitOf(state, to_process, FALSE)
    /\ (Reconciled /\ is_full = Some(FALSE)) =>
          /\ \A i \in 1..Len(to_process) : AsStored(i) => ~Reported(i)
          /\ \A k \in 1..Len(rows_for_csv), n \in LaterValues :
                WithoutLevel(rows_for_csv[k])
                    = WithoutLevel(CsvRow(to_process[report_src[k]], n))

\* on the second day an INCREMENTAL run repeats the non-empty report of the
\* failed run of the first day and leaves out a row that shows what is
\* stored for it and whose health level has changed since by ageing alone
C22_Witness ==
    /\ IncrementalAgain
    /\ now.sec >= Day
    /\ report_src # <<>>
    /\ \E i \in 1..Len(to_process) :
         /\ AsStored(i)
         /\ ~Reported(i)
         /\ ComputeBackupStatus(to_process[i], now)
              # ComputeBackupStatus(to_process[i], [sec |-> 22 * Hour, ms |-> 0])

\* an INCREMENTAL run has been delivered and its new state committed
IncrementalCommitted ==
    /\ Ended
    /\ success
    /\ is_full = Some(FALSE)
    /\ stateFile = Some(JsonObject(new_state))

\* every processed row has an identifier, and one of its own
OwnIdentifiers ==
    \A i, j \in 1..Len(to_process) :
        /\ Aid(to_process[i]) # ""
        /\ (i # j => Aid(to_process[i]) # Aid(to_process[j]))

\* the keys the run loaded with an instant
KeysWithInstant == {k \in DOMAIN state : state[k].ts # None}

\* C23 as stated, for fetches whose rows have identifiers of their own: a
\* delivered and committed INCREMENTAL run leaves no key with a stored instant
\* earlier than the one it had.
C23_InstantNeverBackwards ==
    (IncrementalCommitted /\ OwnIdentifiers) =>
        \A k \in KeysWithInstant :
            new_state[k].ts # None => Get(new_state[k].ts) >= Get(state[k].ts)

\* the commit stored for key k the values of processed row i, whose instant
\* is absent or not greater than the stored one, and the row was reported
\* for its changed status or shares the key with another row
StoredFromRowNotNewer(k, i) ==
    /\ Aid(to_process[i]) = k
    /\ ~TimestampRule(to_process[i])
    /\ new_state[k].ts = EpochSecondsOrNone(to_process[i].ts)
    /\ \/ /\ Reported(i)
          /\ Strip(RawStatusOrEmpty(to_process[i])) # <<>>
          /\ Strip(RawStatusOrEmpty(to_process[i])) # StoredStatusOrEmpty(to_process[i])
       \/ \E j \in 1..Len(to_process) : j # i /\ Aid(to_process[j]) = k

\* C23 (amended): after a delivered and committed INCREMENTAL run every key
\* that had a stored instant has one that is not earlier, unless the commit
\* stored for it the values of a row whose instant is absent or not greater:
\* a row reported for its changed status alone, or a row sharing the key.
C23_InstantBackwardsOnlyByStatus ==
    IncrementalCommitted =>
        \A k \in KeysWithInstant :
            \/ /\ new_state[k].ts # None
               /\ Get(new_state[k].ts) >= Get(state[k].ts)
            \/ \E i \in 1..Len(to_process) : StoredFromRowNotNewer(k, i)

\* over rows with identifiers of their own, a committed INCREMENTAL run has
\* moved the instant of one key forward
C23_Witness ==
    /\ IncrementalCommitted
    /\ OwnIdentifiers
    /\ Len(to_process) > 1
    /\ \E k \in KeysWithInstant :
         /\ new_state[k].ts # None
         /\ Get(new_state[k].ts) > Get(state[k].ts)

====
